---- MODULE Spec2Model ----
(***************************************************************************)
(* Model of lab3/sympy_intersections.py: the brute-force all-pairs         *)
(* segment intersection script.  The script loads rows (x1,y1,x2,y2),      *)
(* builds sympy Segments from them, tests every pair index < j with        *)
(* Segment.intersection, collects the non-empty results in the list i and  *)
(* prints a running count after each outer index.                          *)
(*                                                                         *)
(* sympy works on exact rationals (Point converts floats to Rational), so  *)
(* coordinates are modelled as normalised fractions <<num, den>>.          *)
(***************************************************************************)
EXTENDS Integers, Sequences, FiniteSets, TLC

\* ------------------------------------------------------------------ bounds
MaxN == 3       \* rows of the data file in the driver runs
MaxX == 6       \* largest x of the integer grid of the predicate runs
MaxY == 1       \* largest y of the integer grid of the predicate runs
MaxRuns == 2    \* executions of the script on the same data file

\* ------------------------------------------------------- exact rationals
Abs(x) == IF x < 0 THEN -x ELSE x

RECURSIVE Gcd(_, _)
Gcd(a, b) == IF b = 0 THEN a ELSE Gcd(b, a % b)

\* sympy Rational(n, d): lowest terms, positive denominator
Rat(n, d) ==
    LET g == Gcd(Abs(n), Abs(d))
        sg == IF d < 0 THEN -1 ELSE 1
    IN <<(sg * n) \div g, (sg * d) \div g>>

RSub(x, y) == Rat(x[1] * y[2] - y[1] * x[2], x[2] * y[2])
RAdd(x, y) == Rat(x[1] * y[2] + y[1] * x[2], x[2] * y[2])
RMul(x, y) == Rat(x[1] * y[1], x[2] * y[2])
RDiv(x, y) == Rat(x[1] * y[2], x[2] * y[1])
RSign(x) == IF x[1] > 0 THEN 1 ELSE IF x[1] < 0 THEN -1 ELSE 0

\* ------------------------------------------------------- sympy geometry
\* coordinate vectors <<x, y>> of rationals
VSub(u, v) == <<RSub(u[1], v[1]), RSub(u[2], v[2])>>
VDot(u, v) == RAdd(RMul(u[1], v[1]), RMul(u[2], v[2]))
VCross(u, v) == RSub(RMul(u[1], v[2]), RMul(u[2], v[1]))

\* a geometry entity: a Point2D has p1 = p2
Point2D(c) == [kind |-> "Point", p1 |-> c, p2 |-> c]

\* Point(segment[:2]): the two numbers of a row slice, made Rational
Point(arr) == Point2D(<<Rat(arr[1], 1), Rat(arr[2], 1)>>)

\* Segment(p, q): sympy returns the point itself when p == q
SegmentKeepDegenerate(P, Q) == [kind |-> "Segment", p1 |-> P.p1, p2 |-> Q.p1]

Segment(P, Q) ==
    IF P = Q THEN P ELSE [kind |-> "Segment", p1 |-> P.p1, p2 |-> Q.p1]

direction(e) == VSub(e.p2, e.p1)

is_collinear(a, b, c) == RSign(VCross(VSub(b, a), VSub(c, a))) = 0

\* Segment.contains(Point): collinear and inside the bounding interval
contains_point(seg, c) ==
    /\ is_collinear(c, seg.p1, seg.p2)
    /\ IF seg.p1[1] = seg.p2[1]
       THEN RSign(RMul(RSub(seg.p1[2], c[2]), RSub(seg.p2[2], c[2]))) <= 0
       ELSE RSign(RMul(RSub(seg.p1[1], c[1]), RSub(seg.p2[1], c[1]))) <= 0

\* Segment.contains(other): a point, or both endpoints of a segment
contains(seg, other) ==
    /\ contains_point(seg, other.p1)
    /\ contains_point(seg, other.p2)

\* LinearEntity._span_test
span_test(seg, c) ==
    IF seg.p1 = c THEN 0
    ELSE IF RSign(VDot(direction(seg), VSub(c, seg.p1))) > 0 THEN 1 ELSE -1

intersect_parallel_segments_unoriented(seg1, seg2) ==
    IF contains(seg1, seg2) THEN <<seg2>>
    ELSE IF contains(seg2, seg1) THEN <<seg1>>
    ELSE LET swap == span_test(seg1, seg2.p1) < 0
             a == IF swap THEN seg2 ELSE seg1
             b == IF swap THEN seg1 ELSE seg2
         IN IF span_test(b, a.p2) < 0 THEN <<>>
            ELSE <<Segment(Point2D(b.p1), Point2D(a.p2))>>

\* collinear segments: containment, else orient alike, order, and cut
intersect_parallel_segments(seg1, seg2) ==
    IF contains(seg1, seg2) THEN <<seg2>>
    ELSE IF contains(seg2, seg1) THEN <<seg1>>
    ELSE LET o2 == IF RSign(VDot(direction(seg1), direction(seg2))) < 0
                   THEN Segment(Point2D(seg2.p2), Point2D(seg2.p1))
                   ELSE seg2
             swap == span_test(seg1, o2.p1) < 0
             a == IF swap THEN o2 ELSE seg1
             b == IF swap THEN seg1 ELSE o2
         IN IF span_test(b, a.p2) < 0 THEN <<>>
            ELSE <<Segment(Point2D(b.p1), Point2D(a.p2))>>

\* Point.affine_rank of the four endpoints is 1 when they are collinear
affine_rank(self, other) ==
    IF is_collinear(self.p1, self.p2, other.p1)
       /\ is_collinear(self.p1, self.p2, other.p2)
    THEN 1 ELSE 2

\* the crossing point of the two carrier lines (directions not parallel)
line_intersection(self, other) ==
    LET d1 == direction(self)
        d2 == direction(other)
        coeff == RDiv(VCross(VSub(other.p1, self.p1), d2), VCross(d1, d2))
    IN <<RAdd(self.p1[1], RMul(coeff, d1[1])),
         RAdd(self.p1[2], RMul(coeff, d1[2]))>>

crossing_self_only(self, other) ==
    IF RSign(VCross(direction(self), direction(other))) = 0 THEN <<>>
    ELSE LET c == line_intersection(self, other)
         IN IF contains_point(self, c) THEN <<Point2D(c)>> ELSE <<>>

\* rank 2: parallel lines miss; else the crossing point if on both segments
crossing(self, other) ==
    IF RSign(VCross(direction(self), direction(other))) = 0 THEN <<>>
    ELSE LET c == line_intersection(self, other)
         IN IF contains_point(self, c) /\ contains_point(other, c)
            THEN <<Point2D(c)>> ELSE <<>>

\* segment.intersection(value): a list, empty or with one Point or Segment
intersection(self, other) ==
    IF self.kind = "Point" /\ other.kind = "Point"
    THEN IF self = other THEN <<self>> ELSE <<>>
    ELSE IF self.kind = "Point"
    THEN IF contains(other, self) THEN <<self>> ELSE <<>>
    ELSE IF other.kind = "Point"
    THEN IF contains(self, other) THEN <<other>> ELSE <<>>
    ELSE IF affine_rank(self, other) = 1
    THEN intersect_parallel_segments(self, other)
    ELSE crossing(self, other)

\* ------------------------------------------------------------ the script
VARIABLES
    segments,   \* the rows np.loadtxt returned, in file order
    s,          \* module-level list of loaded entities
    i,          \* module-level list of collected non-empty results
    index,      \* outer loop position
    j,          \* inner loop position
    pc,         \* "load" | "outer" | "inner" | "print" | "done"
    stdout,     \* the progress lines printed after each outer index
    printed,    \* what the final print(i), print(len(i)) wrote
    run,        \* which execution of the script this is
    prev,       \* history: the list i the previous execution ended with
    pairs,      \* history: the (index, j) of every intersection call so far
    tags,       \* history: the (index, j) that produced each entry of i
    segment,    \* predicate runs: the receiver of intersection
    value,      \* predicate runs: the argument of intersection
    p,          \* predicate runs: segment.intersection(value)
    q,          \* predicate runs: value.intersection(segment)
    applied     \* predicate runs: whether p and q are computed

vars == <<segments, s, i, index, j, pc, stdout, printed, run, prev, pairs,
          tags, segment, value, p, q, applied>>

driverVars == <<segments, s, i, index, j, pc, stdout, printed, run, prev,
                pairs, tags>>
predVars == <<segment, value, p, q, applied>>

\* rows a data file may hold: crossing, concurrent, disjoint, overlapping,
\* and a row whose two endpoints coincide
Rows == { <<0, 0, 2, 2>>, <<0, 2, 2, 0>>, <<0, 1, 2, 1>>, <<3, 0, 4, 0>>,
          <<1, 1, 3, 3>>, <<1, 1, 1, 1>> }

RECURSIVE SeqsUpTo(_, _)
SeqsUpTo(S, n) ==
    IF n = 0 THEN {<<>>}
    ELSE LET shorter == SeqsUpTo(S, n - 1)
         IN shorter \cup {Append(sq, e) : sq \in {x \in shorter : Len(x) = n - 1}, e \in S}

NoEntity == Point(<<0, 0>>)

\* lines 6-7: s = [] and i = [] at module level, on every start of the script
FreshList == <<>>

\* line 16: if j <= index: continue
SkippedOnlyBelow(jj, idx) == jj < idx

Skipped(jj, idx) == jj <= idx

\* line 19: if p:
TruthyAlways(res) == TRUE

Truthy(res) == res # <<>>

\* line 20: i.append(p)
CollectInFront(lst, e) == <<e>> \o lst

Collect(lst, e) == Append(lst, e)

\* lines 21-22: print(index); print("Intersections: ", len(i))
ProgressLineLenS(idx, lst) == [index |-> idx, count |-> Len(s)]

ProgressLine(idx, lst) == [index |-> idx, count |-> Len(lst)]

\* line 12: Segment(Point(segment[:2]), Point(segment[2:]))
Load(row) == Segment(Point(SubSeq(row, 1, 2)), Point(SubSeq(row, 3, 4)))

DriverInit ==
    /\ segments \in SeqsUpTo(Rows, MaxN)
    /\ s = FreshList
    /\ i = FreshList
    /\ index = 0
    /\ j = 0
    /\ pc = "load"
    /\ stdout = <<>>
    /\ printed = <<>>
    /\ run = 1
    /\ prev = <<>>
    /\ pairs = <<>>
    /\ tags = <<>>

PredIdle ==
    /\ segment = NoEntity
    /\ value = NoEntity
    /\ p = <<>>
    /\ q = <<>>
    /\ applied = FALSE

Init == DriverInit /\ PredIdle

\* lines 11-12: for segment in segments: s.append(Segment(Point, Point))
LoadSegment ==
    /\ pc = "load"
    /\ Len(s) < Len(segments)
    /\ s' = Append(s, Load(segments[Len(s) + 1]))
    /\ UNCHANGED <<segments, i, index, j, pc, stdout, printed, run, prev, pairs, tags>>
    /\ UNCHANGED predVars

\* line 11 exhausted, line 14 starts: enumerate(s) from index 0
LoadEnd ==
    /\ pc = "load"
    /\ Len(s) = Len(segments)
    /\ pc' = "outer"
    /\ index' = 0
    /\ UNCHANGED <<segments, s, i, j, stdout, printed, run, prev, pairs, tags>>
    /\ UNCHANGED predVars

\* line 14: the outer loop takes s[index]; line 15 starts the inner loop at 0
OuterNext ==
    /\ pc = "outer"
    /\ index < Len(s)
    /\ pc' = "inner"
    /\ j' = 0
    /\ UNCHANGED <<segments, s, i, index, stdout, printed, run, prev, pairs, tags>>
    /\ UNCHANGED predVars

\* line 14 exhausted: fall through to the final prints
OuterEnd ==
    /\ pc = "outer"
    /\ index = Len(s)
    /\ pc' = "print"
    /\ UNCHANGED <<segments, s, i, index, j, stdout, printed, run, prev, pairs, tags>>
    /\ UNCHANGED predVars

\* lines 15-17: an inner iteration that continues without testing
InnerSkip ==
    /\ pc = "inner"
    /\ j < Len(s)
    /\ Skipped(j, index)
    /\ j' = j + 1
    /\ UNCHANGED <<segments, s, i, index, pc, stdout, printed, run, prev, pairs, tags>>
    /\ UNCHANGED predVars

\* lines 15-20: an inner iteration that tests s[index] against s[j]
InnerTest ==
    /\ pc = "inner"
    /\ j < Len(s)
    /\ ~Skipped(j, index)
    /\ LET res == intersection(s[index + 1], s[j + 1])
       IN /\ i' = IF Truthy(res) THEN Collect(i, res) ELSE i
          /\ tags' = IF Truthy(res) THEN Collect(tags, <<index, j>>) ELSE tags
    /\ pairs' = Append(pairs, <<index, j>>)
    /\ j' = j + 1
    /\ UNCHANGED <<segments, s, index, pc, stdout, printed, run, prev>>
    /\ UNCHANGED predVars

\* lines 15, 21-22: inner loop exhausted, print the index and running count
Report ==
    /\ pc = "inner"
    /\ j = Len(s)
    /\ stdout' = Append(stdout, ProgressLine(index, i))
    /\ index' = index + 1
    /\ pc' = "outer"
    /\ UNCHANGED <<segments, s, i, j, printed, run, prev, pairs, tags>>
    /\ UNCHANGED predVars

\* lines 24-25: print(i); print(len(i))
PrintResult ==
    /\ pc = "print"
    /\ printed' = <<[list |-> i, len |-> Len(i)]>>
    /\ pc' = "done"
    /\ UNCHANGED <<segments, s, i, index, j, stdout, run, prev, pairs, tags>>
    /\ UNCHANGED predVars

\* the script is started again on the same data file: a new interpreter
\* executes lines 4-9 afresh
RerunKeepingLists ==
    /\ pc = "done"
    /\ run < MaxRuns
    /\ run' = run + 1
    /\ prev' = i
    /\ s' = FreshList
    /\ UNCHANGED i
    /\ index' = 0
    /\ j' = 0
    /\ pc' = "load"
    /\ stdout' = <<>>
    /\ printed' = <<>>
    /\ pairs' = <<>>
    /\ tags' = <<>>
    /\ UNCHANGED segments
    /\ UNCHANGED predVars

Rerun ==
    /\ pc = "done"
    /\ run < MaxRuns
    /\ run' = run + 1
    /\ prev' = i
    /\ s' = FreshList
    /\ i' = FreshList
    /\ index' = 0
    /\ j' = 0
    /\ pc' = "load"
    /\ stdout' = <<>>
    /\ printed' = <<>>
    /\ pairs' = <<>>
    /\ tags' = <<>>
    /\ UNCHANGED segments
    /\ UNCHANGED predVars

Next ==
    \/ LoadSegment
    \/ LoadEnd
    \/ OuterNext
    \/ OuterEnd
    \/ InnerSkip
    \/ InnerTest
    \/ Report
    \/ PrintResult
    \/ Rerun

Spec == Init /\ [][Next]_vars

\* ------------------------------------------- the predicate on a grid
\* every row (x1, y1, x2, y2) with integer endpoints on the grid
GridRows == (0..MaxX) \X (0..MaxY) \X (0..MaxX) \X (0..MaxY)

PredInit ==
    /\ segments = <<>>
    /\ s = FreshList
    /\ i = FreshList
    /\ index = 0
    /\ j = 0
    /\ pc = "load"
    /\ stdout = <<>>
    /\ printed = <<>>
    /\ run = 1
    /\ prev = <<>>
    /\ pairs = <<>>
    /\ tags = <<>>
    /\ \E r1 \in GridRows, r2 \in GridRows :
          /\ segment = Load(r1)
          /\ value = Load(r2)
    /\ p = <<>>
    /\ q = <<>>
    /\ applied = FALSE

\* line 18 on the pair, in both orders
Apply ==
    /\ ~applied
    /\ p' = intersection(segment, value)
    /\ q' = intersection(value, segment)
    /\ applied' = TRUE
    /\ UNCHANGED <<segment, value>>
    /\ UNCHANGED driverVars

PredNext == Apply

PredSpec == PredInit /\ [][PredNext]_vars

\* ------------------------------------------------------- properties
N == Len(segments)

NumPairs == (N * (N - 1)) \div 2

LexLess(a, b) == a[1] < b[1] \/ (a[1] = b[1] /\ a[2] < b[2])

Degenerate(row) == row[1] = row[3] /\ row[2] = row[4]

HasDegenerateRow == \E k \in DOMAIN segments : Degenerate(segments[k])

\* the pairs a < b of loaded entities whose intersection is non-empty
Intersecting ==
    {pr \in (0..(Len(s) - 1)) \X (0..(Len(s) - 1)) :
        pr[1] < pr[2] /\ intersection(s[pr[1] + 1], s[pr[2] + 1]) # <<>>}

\* C1: every call of the predicate is on a pair index < j inside the store,
\* no pair is called twice, and once the enumeration is over every pair
\* a < b < N has been called, N*(N-1)/2 calls in all.
C1_AllPairsOnce ==
    /\ \A k \in DOMAIN pairs :
          0 <= pairs[k][1] /\ pairs[k][1] < pairs[k][2] /\ pairs[k][2] < N
    /\ \A a, b \in DOMAIN pairs : a # b => pairs[a] # pairs[b]
    /\ pc \in {"print", "done"} =>
          /\ Len(pairs) = NumPairs
          /\ \A a, b \in 0..(N - 1) :
                a < b => \E k \in DOMAIN pairs : pairs[k] = <<a, b>>

C1_Witness == pc = "done" /\ N = 3 /\ Len(pairs) = 3

\* C2: no call of the predicate is on a pair (k, k), and no entry of the
\* output was produced by such a pair.
C2_SelfExclusion ==
    /\ \A k \in DOMAIN pairs : pairs[k][1] # pairs[k][2]
    /\ \A k \in DOMAIN tags : tags[k][1] # tags[k][2]

C2_Witness == pc = "done" /\ N >= 2 /\ Len(pairs) >= 1 /\ Len(tags) >= 1

\* C3: in every state the entries of the output stand in the order of the
\* pairs that produced them: entry a precedes entry b exactly when the pair
\* of a is lexicographically smaller than the pair of b.
C3_IncreasingOrder ==
    /\ Len(tags) = Len(i)
    /\ \A a, b \in DOMAIN tags : (a < b) <=> LexLess(tags[a], tags[b])

C3_Witness == Len(i) = 3 /\ tags[1][1] # tags[3][1] /\ pc = "inner"

\* C9: in every state the output has at most one entry per predicate call,
\* and so at most N*(N-1)/2 entries; an overlap counts as one entry.
C9_CountBound ==
    /\ Len(i) <= Len(pairs)
    /\ Len(i) <= NumPairs

C9_Witness ==
    /\ N = 3
    /\ Len(i) = 3
    /\ \E k \in DOMAIN i : i[k][1].kind = "Segment"

\* C10: the progress lines name the outer indexes 0, 1, ... once each, in
\* order; index k is reported when every pair (k, b) has been called and
\* before any pair (k+1, b) is; its count is the number of intersecting
\* pairs (a, b) with a <= k; the counts never decrease and the last one is
\* the total that the script prints at the end.
C10_Progress ==
    /\ Len(stdout) <= N
    /\ \A k \in DOMAIN stdout : stdout[k].index = k - 1
    /\ \A k \in DOMAIN stdout :
          stdout[k].count = Cardinality({pr \in Intersecting : pr[1] <= k - 1})
    /\ \A k \in DOMAIN pairs : pairs[k][1] <= Len(stdout)
    /\ \A a \in 0..(Len(stdout) - 1) : \A b \in (a + 1)..(N - 1) :
          \E k \in DOMAIN pairs : pairs[k] = <<a, b>>
    /\ \A k, l \in DOMAIN stdout : k <= l => stdout[k].count <= stdout[l].count
    /\ pc = "done" =>
          /\ Len(stdout) = N
          /\ N > 0 => stdout[N].count = Len(i)
          /\ printed[1].len = Len(i)

C10_Witness ==
    /\ pc = "done"
    /\ N = 3
    /\ stdout[1].count < stdout[2].count
    /\ stdout[2].count = stdout[3].count

C4_PairReadableFromEntry ==
    \A a, b \in DOMAIN i : i[a] = i[b] => tags[a] = tags[b]

\* C4 as amended: every entry of the output is exactly the non-empty list
\* that the predicate returned for one pair index < j, a single Point or
\* Segment, and nothing else.
C4_EntryIsResult ==
    /\ Len(tags) = Len(i)
    /\ \A k \in DOMAIN i :
          /\ i[k] # <<>>
          /\ i[k] = intersection(s[tags[k][1] + 1], s[tags[k][2] + 1])
          /\ DOMAIN i[k] = {1}
          /\ i[k][1].kind \in {"Point", "Segment"}
          /\ DOMAIN i[k][1] = {"kind", "p1", "p2"}

C4_Witness ==
    \E a, b \in DOMAIN i : a # b /\ i[a] = i[b] /\ tags[a] # tags[b]

SameUpToSwap(x, y) ==
    /\ Len(x) = Len(y)
    /\ x # <<>> =>
          /\ x[1].kind = y[1].kind
          /\ {x[1].p1, x[1].p2} = {y[1].p1, y[1].p2}

BothSegments == segment.kind = "Segment" /\ value.kind = "Segment"

\* C6: for two segments with endpoints on the integer grid, the predicate
\* gives the same classification and the same coordinates in both argument
\* orders, up to the endpoint order of an overlap sub-segment.
C6_Symmetry == (applied /\ BothSegments) => SameUpToSwap(p, q)

C6_Witness ==
    /\ applied
    /\ BothSegments
    /\ p # <<>>
    /\ p[1].kind = "Segment"
    /\ p # q

\* integer coordinates of a grid point
XOf(c) == c[1][1]
YOf(c) == c[2][1]

Sign(n) == IF n > 0 THEN 1 ELSE IF n < 0 THEN -1 ELSE 0

Orient(P, Q, R) ==
    Sign((XOf(Q) - XOf(P)) * (YOf(R) - YOf(P)) - (YOf(Q) - YOf(P)) * (XOf(R) - XOf(P)))

AllOrientZero ==
    /\ Orient(segment.p1, segment.p2, value.p1) = 0
    /\ Orient(segment.p1, segment.p2, value.p2) = 0
    /\ Orient(value.p1, value.p2, segment.p1) = 0
    /\ Orient(value.p1, value.p2, segment.p2) = 0

Min2(a, b) == IF a <= b THEN a ELSE b
Max2(a, b) == IF a >= b THEN a ELSE b

\* projection on the axis along which the first segment extends more
Proj(c) ==
    IF Abs(XOf(segment.p2) - XOf(segment.p1)) >= Abs(YOf(segment.p2) - YOf(segment.p1))
    THEN XOf(c) ELSE YOf(c)

CommonLo ==
    Max2(Min2(Proj(segment.p1), Proj(segment.p2)), Min2(Proj(value.p1), Proj(value.p2)))
CommonHi ==
    Min2(Max2(Proj(segment.p1), Proj(segment.p2)), Max2(Proj(value.p1), Proj(value.p2)))

EndAt(c) ==
    CHOOSE e \in {segment.p1, segment.p2, value.p1, value.p2} : Proj(e) = c

\* C8: for two collinear segments on the integer grid the predicate gives
\* nothing when the projections are disjoint, the shared point when they
\* touch in one point, and the sub-segment spanning the common interval
\* when that interval has positive length.
C8_CollinearOverlap ==
    (applied /\ BothSegments /\ AllOrientZero) =>
        /\ CommonLo > CommonHi => p = <<>>
        /\ CommonLo = CommonHi => p = <<Point2D(EndAt(CommonLo))>>
        /\ CommonLo < CommonHi =>
              /\ Len(p) = 1
              /\ p[1].kind = "Segment"
              /\ {p[1].p1, p[1].p2} = {EndAt(CommonLo), EndAt(CommonHi)}

C8_Witness ==
    /\ applied
    /\ segment = Load(<<0, 0, 4, 0>>)
    /\ value = Load(<<2, 0, 6, 0>>)
    /\ p = <<Load(<<2, 0, 4, 0>>)>>

====
